---- MODULE Spec2Model ----
(***************************************************************************)
(* Model of feldspar (src/src/main.rs): the host functions registered with *)
(* the embedded scripting engine (configure-model, prompt, lookup-env,     *)
(* tool/new, tool/describe) and the REPL loop around the engine.           *)
(*                                                                         *)
(* Texts whose structure matters (the string prompt returns, the lines the *)
(* REPL reads) are sequences of one-character strings; texts that are only *)
(* compared for equality (urls, tokens, names) are TLA+ strings.           *)
(***************************************************************************)
EXTENDS Integers, Sequences, FiniteSets, TLC

VARIABLES
    config,       \* MODEL_CONFIG: [url, token, model, adapter]
    lastArgs,     \* history variable: <<>> or <<args>> of the latest configure_model call
    script,       \* [history, message]: the prompt call the running script makes
    op,           \* name of the host function called last ("none" at start)
    args,         \* arguments of the host function called last
    request,      \* <<>> or <<r>>: the request the last call handed to the model client
    response,     \* <<>> or <<o>>: what client.exec_chat answered in the last call
    ret,          \* value the last host call returned to the scripting engine
    prompts,      \* number of prompt calls made so far
    sent,         \* number of exec_chat attempts the model client has received
    stdout,       \* last line written to standard output
    stderr,       \* last line written to standard error
    env,          \* the process environment: set names -> [valid, value]
    pc,           \* position of main: "main", "repl" or "exit"
    argFile,      \* <<>> or <<file>>: the command-line argument (args[1])
    lastRead,     \* result of the last rl.readline call
    rlHistory     \* the line editor's history entries (add_history_entry)

vars == <<config, lastArgs, script, op, args, request, response, ret, prompts, sent, stdout,
          stderr, env, pc, argFile, lastRead, rlHistory>>

replVars == <<pc, argFile, lastRead, rlHistory>>

-----------------------------------------------------------------------------
(* Bounds of the model *)

MaxHist == 3
MaxPrompts == 2
MaxSchema == 2
MaxLines == 2

-----------------------------------------------------------------------------
(* Sequences helpers *)

SeqsUpTo(S, n) == UNION {[1..k -> S] : k \in 0..n}

IsPrefix(p, s) == Len(p) <= Len(s) /\ SubSeq(s, 1, Len(p)) = p

-----------------------------------------------------------------------------
(* ModelConfig and its default *)

DefaultConfig ==
    [url |-> "https://api.openai.com/v1", token |-> "",
     model |-> "gpt-4o-mini", adapter |-> "openai"]

Urls == {"https://api.openai.com/v1", "http://localhost:9999"}
Tokens == {"", "tok"}
Models == {"gpt-4o-mini", "test-model"}
AdapterNames == {"openai", "anthropic", "ollama", "gemini", "groq", "cohere",
                 "", "Anthropic", "mistral"}

(* adapter_from_string matching the name without regard to case *)
adapter_from_string_nocase(s) ==
    CASE s = "openai" -> "OpenAI"
      [] s \in {"anthropic", "Anthropic"} -> "Anthropic"
      [] s = "ollama" -> "Ollama"
      [] s = "gemini" -> "Gemini"
      [] s = "groq" -> "Groq"
      [] s = "cohere" -> "Cohere"
      [] OTHER -> "OpenAI"

adapter_from_string(s) ==
    CASE s = "openai" -> "OpenAI"
      [] s = "anthropic" -> "Anthropic"
      [] s = "ollama" -> "Ollama"
      [] s = "gemini" -> "Gemini"
      [] s = "groq" -> "Groq"
      [] s = "cohere" -> "Cohere"
      [] OTHER -> "OpenAI"


(* configure_model that forgets to store the token *)
configure_write_no_token(c, url, token, model, adapter) ==
    LET c1 == [c EXCEPT !.url = url]
        c3 == [c1 EXCEPT !.model = model]
    IN  [c3 EXCEPT !.adapter = adapter]

configure_write(c, url, token, model, adapter) ==
    LET c1 == [c EXCEPT !.url = url]
        c2 == [c1 EXCEPT !.token = token]
        c3 == [c2 EXCEPT !.model = model]
    IN  [c3 EXCEPT !.adapter = adapter]

configure_message(url, model, adapter) ==
    <<"Configured: adapter=", adapter, ", model=", model, ", url=", url>>

(* configure-model: replaces the four fields, prints the confirmation, returns unit *)
configure_model(url, token, model, adapter) ==
    /\ config' = configure_write(config, url, token, model, adapter)
    /\ lastArgs' = <<[url |-> url, token |-> token, model |-> model, adapter |-> adapter]>>
    /\ op' = "configure-model"
    /\ args' = <<url, token, model, adapter>>
    /\ request' = <<>>
    /\ response' = <<>>
    /\ ret' = [kind |-> "Void", value |-> <<>>]
    /\ stdout' = <<configure_message(url, model, adapter)>>
    /\ stderr' = <<>>
    /\ UNCHANGED <<script, prompts, sent, env, replVars>>

-----------------------------------------------------------------------------
(* prompt *)

HistoryEntries ==
    { <<>>, <<"user">>, <<"user", "Hello">>, <<"bogus", "ignored">>,
      <<"assistant", "Hi">>, <<"system", "Be brief", "extra">> }

Histories == SeqsUpTo(HistoryEntries, MaxHist)

Messages == {"Continue", "hi"}

(* what client.exec_chat can come back with: a response carrying text, a   *)
(* response without extractable text, or the client's single error channel *)
Outcomes ==
    { [kind |-> "text", payload |-> <<"H", "i">>],
      [kind |-> "text", payload |-> <<>>],
      [kind |-> "empty", payload |-> <<>>],
      [kind |-> "error", payload |-> <<"b", "o", "o", "m">>] }

ChatMessage(role, content) == [role |-> role, content |-> content]

(* the closure of filter_map sending an unrecognized role as a user turn *)
translate_entry_keep_unknown(entry) ==
    IF Len(entry) >= 2
    THEN LET role == entry[1]
             content == entry[2]
         IN  CASE role = "assistant" -> <<ChatMessage("assistant", content)>>
               [] role = "system" -> <<ChatMessage("system", content)>>
               [] OTHER -> <<ChatMessage("user", content)>>
    ELSE <<>>

(* the closure given to filter_map: <<>> for None, <<m>> for Some(m) *)
translate_entry(entry) ==
    IF Len(entry) >= 2
    THEN LET role == entry[1]
             content == entry[2]
         IN  CASE role = "user" -> <<ChatMessage("user", content)>>
               [] role = "assistant" -> <<ChatMessage("assistant", content)>>
               [] role = "system" -> <<ChatMessage("system", content)>>
               [] OTHER -> <<>>
    ELSE <<>>

RECURSIVE filter_map(_)
filter_map(history) ==
    IF history = <<>> THEN <<>>
    ELSE translate_entry(Head(history)) \o filter_map(Tail(history))

build_messages(history, user_prompt) ==
    Append(filter_map(history), ChatMessage("user", user_prompt))

snapshot(c) ==
    [url |-> c.url, token |-> c.token, model |-> c.model, adapter |-> c.adapter]

(* a snapshot that moves the strings out of MODEL_CONFIG instead of cloning *)
config_after_snapshot_take(c) ==
    [url |-> "", token |-> "", model |-> "", adapter |-> ""]

(* MODEL_CONFIG after the shared borrow of the snapshot is dropped *)
config_after_snapshot(c) == c

(* a resolver that keeps the client's own endpoint *)
service_target_default_endpoint(snap, m) ==
    [endpoint |-> "https://api.openai.com/v1", auth |-> snap.token,
     adapter_kind |-> adapter_from_string(snap.adapter), model_name |-> m]

(* the ServiceTarget the resolver closure returns for model name m *)
service_target(snap, m) ==
    [endpoint |-> snap.url, auth |-> snap.token,
     adapter_kind |-> adapter_from_string(snap.adapter), model_name |-> m]

(* a prompt that tries a failed request a second time *)
exec_chat_calls_retry(outcome) == IF outcome.kind = "error" THEN 2 ELSE 1

(* number of client.exec_chat calls one prompt call makes *)
exec_chat_calls(outcome) == 1

ErrorPrefix == <<"E", "r", "r", "o", "r", ":", " ">>
NoResponse == <<"N", "o", " ", "r", "e", "s", "p", "o", "n", "s", "e">>

(* a prompt that hands the client's error to the scripting engine *)
prompt_result_raise(outcome) ==
    CASE outcome.kind = "text" -> [kind |-> "String", value |-> outcome.payload]
      [] outcome.kind = "empty" -> [kind |-> "String", value |-> NoResponse]
      [] outcome.kind = "error" -> [kind |-> "Err", value |-> outcome.payload]

prompt_result(outcome) ==
    CASE outcome.kind = "text" -> [kind |-> "String", value |-> outcome.payload]
      [] outcome.kind = "empty" -> [kind |-> "String", value |-> NoResponse]
      [] outcome.kind = "error" ->
            [kind |-> "String", value |-> ErrorPrefix \o outcome.payload]

prompt(history, user_prompt, outcome) ==
    /\ prompts < MaxPrompts
    /\ LET snap == snapshot(config)
       IN  /\ config' = config_after_snapshot(config)
           /\ request' = <<[target |-> service_target(snap, snap.model),
                            snapshot |-> snap,
                            messages |-> build_messages(history, user_prompt)]>>
    /\ response' = <<outcome>>
    /\ sent' = sent + exec_chat_calls(outcome)
    /\ prompts' = prompts + 1
    /\ ret' = prompt_result(outcome)
    /\ op' = "prompt"
    /\ args' = <<history, user_prompt>>
    /\ stdout' = <<>>
    /\ stderr' = <<>>
    /\ UNCHANGED <<lastArgs, script, env, replVars>>

-----------------------------------------------------------------------------
(* lookup-env *)

EnvNames == {"API_KEY", "api_key"}
LookupNames == EnvNames \cup {"DEFINITELY_UNSET_VAR_xyz"}

(* a set variable holds valid text or bytes that are not valid unicode *)
EnvValues ==
    { [valid |-> TRUE, value |-> "secret"], [valid |-> TRUE, value |-> ""],
      [valid |-> FALSE, value |-> "\\xff"] }

Environments == UNION {[D -> EnvValues] : D \in SUBSET EnvNames}

(* std::env::var: Ok(value), Err(NotPresent) or Err(NotUnicode(raw)) *)
env_var(e, v) ==
    IF v \notin DOMAIN e THEN [kind |-> "Err", value |-> <<"NotPresent">>]
    ELSE IF e[v].valid THEN [kind |-> "Ok", value |-> <<e[v].value>>]
    ELSE [kind |-> "Err", value |-> <<"NotUnicode", e[v].value>>]

(* VarError's Display *)
var_error_to_string(err) ==
    IF err[1] = "NotPresent" THEN <<"environment variable not found">>
    ELSE <<"environment variable was not valid unicode: ", err[2]>>

(* a lookup that answers an unset variable with the empty string *)
lookup_env_result_or_default(r) ==
    CASE r.kind = "Ok" -> [kind |-> "Ok", value |-> r.value]
      [] r.kind = "Err" -> [kind |-> "Ok", value |-> <<"">>]

lookup_env_result(r) ==
    CASE r.kind = "Ok" -> [kind |-> "Ok", value |-> r.value]
      [] r.kind = "Err" -> [kind |-> "Err", value |-> var_error_to_string(r.value)]

lookup_env(v) ==
    /\ ret' = lookup_env_result(env_var(env, v))
    /\ op' = "lookup-env"
    /\ args' = <<v>>
    /\ request' = <<>>
    /\ response' = <<>>
    /\ stdout' = <<>>
    /\ stderr' = <<>>
    /\ UNCHANGED <<config, lastArgs, script, prompts, sent, env, replVars>>

-----------------------------------------------------------------------------
(* Tool and ToolSchema.  A rendered text is a sequence of fragments in      *)
(* which every line break is the fragment "\n" of its own.                  *)

ToolSchemaTags == {"Number", "String", "Bool"}

ToolSchema_fmt(t) ==
    CASE t = "Number" -> "<number>"
      [] t = "String" -> "<string>"
      [] t = "Bool" -> "<bool>"

ToolNames == {"add"}
ToolDescriptions == {"Adds two numbers"}
ToolHandlers == {"add-handler"}
SchemaEntries == {<<"a", "Number">>, <<"b", "String">>, <<"c", "Bool">>}
Schemas == SeqsUpTo(SchemaEntries, MaxSchema)

Tool_new(name, desc, schema, handler) ==
    [name |-> name, description |-> desc, schema |-> schema, handler |-> handler]

writeln(d, fragments) == d \o fragments \o <<"\n">>

(* the loop of describe that fills pretty_schema *)
RECURSIVE pretty_schema(_)
pretty_schema(schema) ==
    IF schema = <<>> THEN <<>>
    ELSE writeln(<<>>, <<"{\"", Head(schema)[1], "\": ",
                         ToolSchema_fmt(Head(schema)[2]), " },">>)
         \o pretty_schema(Tail(schema))

Tool_describe(t) ==
    LET d1 == writeln(<<>>, <<"Name: ", t.name>>)
        d2 == writeln(d1, <<"Description: ", t.description>>)
        ps == pretty_schema(t.schema)
        d3 == writeln(d2, <<"Schema: [", "\n", " ", t.description, "\n", "]">>)
        d4 == writeln(d3, <<"Description: ", t.description>>)
    IN  d4

tool_new(name, desc, schema, handler) ==
    /\ ret' = [kind |-> "Tool", value |-> Tool_new(name, desc, schema, handler)]
    /\ op' = "tool/new"
    /\ args' = <<name, desc, schema, handler>>
    /\ request' = <<>>
    /\ response' = <<>>
    /\ stdout' = <<>>
    /\ stderr' = <<>>
    /\ UNCHANGED <<config, lastArgs, script, prompts, sent, env, replVars>>

tool_describe(t) ==
    /\ ret' = [kind |-> "String", value |-> Tool_describe(t)]
    /\ op' = "tool/describe"
    /\ args' = <<t>>
    /\ request' = <<>>
    /\ response' = <<>>
    /\ stdout' = <<>>
    /\ stderr' = <<>>
    /\ UNCHANGED <<config, lastArgs, script, prompts, sent, env, replVars>>

-----------------------------------------------------------------------------
(* Text helpers of the REPL: str::trim, str::starts_with, str::splitn(2, ' ') *)

RECURSIVE trim_start(_)
trim_start(s) ==
    IF s # <<>> /\ Head(s) = " " THEN trim_start(Tail(s)) ELSE s

RECURSIVE trim_end(_)
trim_end(s) ==
    IF s # <<>> /\ s[Len(s)] = " " THEN trim_end(SubSeq(s, 1, Len(s) - 1)) ELSE s

trim(s) == trim_end(trim_start(s))

starts_with(s, c) == s # <<>> /\ Head(s) = c

splitn2(s) ==
    LET spaces == {i \in 1..Len(s) : s[i] = " "}
    IN  IF spaces = {} THEN <<s>>
        ELSE LET i == CHOOSE j \in spaces : \A k \in spaces : j <= k
             IN  <<SubSeq(s, 1, i - 1), SubSeq(s, i + 1, Len(s))>>

print_help ==
    << <<"Commands:">>,
       <<"  :help         (:h)  Show this help">>,
       <<"  :load <file>  (:l)  Load a .scm file">>,
       <<"  :quit         (:q)  Exit the REPL">>,
       <<"Functions:">>,
       <<"  (chat <string>)                                    Prompt the AI">> >>

(* fs::read_to_string(path) followed by engine.run(contents); readOk and    *)
(* runOk are what the file system and the engine answer                     *)
load_file(path, readOk, runOk) ==
    IF readOk
    THEN IF runOk
         THEN [stdout |-> << <<"Loaded ", path>> >>, stderr |-> <<>>]
         ELSE [stdout |-> <<>>, stderr |-> << <<"Error in ", path, ": ", "e">> >>]
    ELSE [stdout |-> <<>>, stderr |-> << <<"Error reading ", path, ": ", "e">> >>]

(* Option<bool> is <<>> for None and <<b>> for Some(b) *)
handle_command(cmd, readOk, runOk) ==
    LET parts == splitn2(Tail(cmd))
        command == parts[1]
        arg == IF Len(parts) >= 2 THEN <<trim(parts[2])>> ELSE <<>>
    IN  CASE command \in {<<"h">>, <<"h", "e", "l", "p">>} ->
                [should_quit |-> <<FALSE>>, stdout |-> print_help, stderr |-> <<>>]
          [] command \in {<<"q">>, <<"q", "u", "i", "t">>} ->
                [should_quit |-> <<TRUE>>, stdout |-> <<>>, stderr |-> <<>>]
          [] command \in {<<"l">>, <<"l", "o", "a", "d">>} ->
                IF arg = <<>>
                THEN [should_quit |-> <<FALSE>>, stdout |-> <<>>,
                      stderr |-> << <<"Usage: :load <file.scm>">> >>]
                ELSE LET r == load_file(arg[1], readOk, runOk)
                     IN  [should_quit |-> <<FALSE>>, stdout |-> r.stdout,
                          stderr |-> r.stderr]
          [] OTHER ->
                [should_quit |-> <<FALSE>>, stdout |-> <<>>,
                 stderr |-> << <<"Unknown command: ", command,
                                 ". Type :help for available commands.">> >>]

InputLines ==
    { <<>>,
      <<" ", " ">>,
      <<":", "q">>,
      <<":", "q", "u", "i", "t">>,
      <<" ", ":", "q", " ">>,
      <<":", "q", " ", "n", "o", "w">>,
      <<":", "h">>,
      <<":", "h", "e", "l", "p">>,
      <<":", "l">>,
      <<":", "l", "o", "a", "d">>,
      <<":", "l", " ", "a">>,
      <<":", "l", "o", "a", "d", " ", " ", "a">>,
      <<":", "x">>,
      <<":">>,
      <<":", "q", "u", "i", "t", "!">>,
      <<"(", "f", ")">>,
      <<"q">> }

(* what rl.readline returns *)
ReadResults ==
    {[kind |-> "Ok", line |-> l] : l \in InputLines}
    \cup {[kind |-> k, line |-> <<>>] : k \in {"Interrupted", "Eof", "Error"}}

(* a loop that leaves whenever handle_command returns Some(_) *)
eval_line_break_on_some(trimmed, readOk, runOk) ==
    IF starts_with(trimmed, ":")
    THEN LET r == handle_command(trimmed, readOk, runOk)
         IN  [break |-> r.should_quit # <<>>,
              stdout |-> r.stdout, stderr |-> r.stderr]
    ELSE IF runOk
         THEN [break |-> FALSE, stdout |-> << <<"=> ", "val">> >>, stderr |-> <<>>]
         ELSE [break |-> FALSE, stdout |-> <<>>, stderr |-> << <<"Error: ", "e">> >>]

(* the trimmed line is a colon-command or a script for engine.run *)
eval_line(trimmed, readOk, runOk) ==
    IF starts_with(trimmed, ":")
    THEN LET r == handle_command(trimmed, readOk, runOk)
         IN  [break |-> r.should_quit # <<>> /\ r.should_quit[1],
              stdout |-> r.stdout, stderr |-> r.stderr]
    ELSE IF runOk
         THEN [break |-> FALSE, stdout |-> << <<"=> ", "val">> >>, stderr |-> <<>>]
         ELSE [break |-> FALSE, stdout |-> <<>>, stderr |-> << <<"Error: ", "e">> >>]

(* one iteration of the loop of repl; leaving the loop saves the history and *)
(* returns to main, which ends                                               *)
repl_iteration(read, readOk, runOk) ==
    /\ pc = "repl"
    /\ lastRead' = read
    /\ CASE read.kind = "Ok" ->
              LET trimmed == trim(read.line)
              IN  IF trimmed = <<>>
                  THEN /\ pc' = "repl"
                       /\ stdout' = <<>>
                       /\ stderr' = <<>>
                       /\ UNCHANGED rlHistory
                  ELSE LET r == eval_line(trimmed, readOk, runOk)
                       IN  /\ Len(rlHistory) < MaxLines
                           /\ rlHistory' = Append(rlHistory, trimmed)
                           /\ pc' = IF r.break THEN "exit" ELSE "repl"
                           /\ stdout' = r.stdout
                           /\ stderr' = r.stderr
         [] read.kind = "Interrupted" ->
              /\ pc' = "repl"
              /\ stdout' = << <<"^C">> >>
              /\ stderr' = <<>>
              /\ UNCHANGED rlHistory
         [] read.kind = "Eof" ->
              /\ pc' = "exit"
              /\ stdout' = <<>>
              /\ stderr' = <<>>
              /\ UNCHANGED rlHistory
         [] OTHER ->
              /\ pc' = "exit"
              /\ stdout' = <<>>
              /\ stderr' = << <<"Input error: ", "e">> >>
              /\ UNCHANGED rlHistory
    /\ UNCHANGED <<config, lastArgs, script, op, args, request, response, ret, prompts, sent,
                   env, argFile>>

(* main up to the call of repl: init's banner, then the file argument *)
main_start(readOk, runOk) ==
    /\ pc = "main"
    /\ LET banner == << <<"Type :help for commands", "\n">> >>
       IN  IF argFile # <<>>
           THEN LET r == load_file(argFile[1], readOk, runOk)
                IN  /\ stdout' = banner \o r.stdout
                    /\ stderr' = r.stderr
           ELSE /\ stdout' = banner
                /\ stderr' = <<>>
    /\ pc' = "repl"
    /\ UNCHANGED <<config, lastArgs, script, op, args, request, response, ret, prompts, sent,
                   env, argFile, lastRead, rlHistory>>

-----------------------------------------------------------------------------
(* The host functions as the scripting engine calls them *)

ScenarioScripts ==
    { [history |-> <<>>, message |-> "hi"],
      [history |-> << <<"user", "Hello">>, <<"bogus", "ignored">>,
                      <<"assistant", "Hi">> >>, message |-> "Continue"] }

(* a script line is being evaluated *)
InitRepl ==
    /\ pc = "repl"
    /\ argFile = <<>>
    /\ lastRead = [kind |-> "None", line |-> <<>>]
    /\ rlHistory = <<>>

InitHost ==
    /\ config = DefaultConfig
    /\ lastArgs = <<>>
    /\ op = "none"
    /\ args = <<>>
    /\ request = <<>>
    /\ response = <<>>
    /\ ret = [kind |-> "Void", value |-> <<>>]
    /\ prompts = 0
    /\ sent = 0
    /\ stdout = <<>>
    /\ stderr = <<>>

Init ==
    /\ InitHost
    /\ InitRepl
    /\ script \in ScenarioScripts
    /\ env = [n \in {"API_KEY"} |-> [valid |-> TRUE, value |-> "secret"]]

ConfigureModel ==
    \E url \in Urls, token \in Tokens, model \in Models, adapter \in AdapterNames :
        configure_model(url, token, model, adapter)

Prompt == \E outcome \in Outcomes : prompt(script.history, script.message, outcome)

LookupEnv == \E v \in LookupNames : lookup_env(v)

ToolNew ==
    \E name \in ToolNames, desc \in ToolDescriptions, schema \in Schemas,
       handler \in ToolHandlers : tool_new(name, desc, schema, handler)

(* the script renders the tool it has just constructed *)
ToolDescribe == op = "tool/new" /\ tool_describe(ret.value)

Next == ConfigureModel \/ Prompt \/ LookupEnv \/ ToolNew \/ ToolDescribe

Spec == Init /\ [][Next]_vars

(* prompt as a function of its arguments, under the default configuration *)
InitPrompt ==
    /\ InitHost
    /\ InitRepl
    /\ script \in [history : Histories, message : Messages]
    /\ env = <<>>

NextPrompt == Prompt

SpecPrompt == InitPrompt /\ [][NextPrompt]_vars

(* lookup-env over the environments the process can be started in *)
InitEnv ==
    /\ InitHost
    /\ InitRepl
    /\ script \in ScenarioScripts
    /\ env \in Environments

NextEnv == LookupEnv

SpecEnv == InitEnv /\ [][NextEnv]_vars

(* the program from its start: main, then the REPL loop; what evaluated     *)
(* scripts do to the host state is the subject of Spec                      *)
InitMain ==
    /\ InitHost
    /\ script \in ScenarioScripts
    /\ env = <<>>
    /\ pc = "main"
    /\ argFile \in {<<>>, << <<"a">> >>}
    /\ lastRead = [kind |-> "None", line |-> <<>>]
    /\ rlHistory = <<>>

MainStart == \E readOk \in BOOLEAN, runOk \in BOOLEAN : main_start(readOk, runOk)

ReplIteration ==
    \E read \in ReadResults, readOk \in BOOLEAN, runOk \in BOOLEAN :
        repl_iteration(read, readOk, runOk)

NextRepl == MainStart \/ ReplIteration

SpecRepl == InitMain /\ [][NextRepl]_vars

-----------------------------------------------------------------------------
(* Properties *)

RecognizedRoles == {"user", "assistant", "system"}

ValidEntry(entry) == Len(entry) >= 2 /\ entry[1] \in RecognizedRoles

ValidIndices(h) == {i \in 1..Len(h) : ValidEntry(h[i])}

(* position in the request of the turn made from the valid entry h[i] *)
Rank(h, i) == Cardinality({j \in ValidIndices(h) : j <= i})

ExampleHistory ==
    << <<"user", "Hello">>, <<"bogus", "ignored">>, <<"assistant", "Hi">> >>

(* C1: the turns prompt(history, newUserMessage) hands to the model client *)
(* are the history entries with at least 2 elements and a role among user, *)
(* assistant, system, in their original order, each as (entry[0],          *)
(* entry[1]), followed by one user turn carrying newUserMessage; the count *)
(* is (number of valid entries) + 1, the other entries are dropped without *)
(* an error, and the example history with message Continue gives 3 turns.  *)
C1_PromptTurns ==
    op = "prompt" =>
        LET h == args[1]
            u == args[2]
            m == request[1].messages
        IN  /\ Len(m) = Cardinality(ValidIndices(h)) + 1
            /\ \A i \in ValidIndices(h) :
                   m[Rank(h, i)] = [role |-> h[i][1], content |-> h[i][2]]
            /\ m[Len(m)] = [role |-> "user", content |-> u]
            /\ ret.kind = "String"
            /\ (h = ExampleHistory /\ u = "Continue" => Len(m) = 3)

C1_Witness ==
    /\ op = "prompt"
    /\ args = <<ExampleHistory, "Continue">>
    /\ request[1].messages =
          << [role |-> "user", content |-> "Hello"],
             [role |-> "assistant", content |-> "Hi"],
             [role |-> "user", content |-> "Continue"] >>

LatestConfiguration == IF lastArgs = <<>> THEN DefaultConfig ELSE lastArgs[1]

(* C2: every prompt call builds its request from the arguments of the most *)
(* recent preceding configureModel call: endpoint = url, credential =      *)
(* token, model identity = (resolved adapter kind, model); before any      *)
(* configureModel it uses https://api.openai.com/v1, the empty token,      *)
(* gpt-4o-mini and the openai adapter.                                     *)
C2_RequestFromLatestConfigure ==
    op = "prompt" =>
        LET t == request[1].target
        IN  IF lastArgs = <<>>
            THEN t = [endpoint |-> "https://api.openai.com/v1", auth |-> "",
                      adapter_kind |-> "OpenAI", model_name |-> "gpt-4o-mini"]
            ELSE /\ t.endpoint = lastArgs[1].url
                 /\ t.auth = lastArgs[1].token
                 /\ t.model_name = lastArgs[1].model
                 /\ t.adapter_kind = adapter_from_string(lastArgs[1].adapter)

C2_Witness ==
    /\ op = "prompt"
    /\ prompts = 2
    /\ lastArgs # <<>>
    /\ request[1].target = [endpoint |-> "http://localhost:9999", auth |-> "tok",
                            adapter_kind |-> "Ollama", model_name |-> "test-model"]

KnownAdapters ==
    [openai |-> "OpenAI", anthropic |-> "Anthropic", ollama |-> "Ollama",
     gemini |-> "Gemini", groq |-> "Groq", cohere |-> "Cohere"]

(* C3: adapter-name resolution is total and case-sensitive: the six exact  *)
(* lowercase names resolve to their own kind, every other string (the      *)
(* empty string, "Anthropic") resolves to OpenAI, and neither              *)
(* configureModel nor prompt fails because of the adapter name.            *)
C3_AdapterResolution ==
    /\ op = "prompt" =>
          LET n == request[1].snapshot.adapter
              k == request[1].target.adapter_kind
          IN  /\ n \in DOMAIN KnownAdapters => k = KnownAdapters[n]
              /\ n \notin DOMAIN KnownAdapters => k = "OpenAI"
              /\ ret.kind = "String"
    /\ op = "configure-model" => ret.kind = "Void" /\ config.adapter = args[4]

C3_Witness ==
    /\ op = "prompt"
    /\ request[1].snapshot.adapter = "Anthropic"
    /\ request[1].target.adapter_kind = "OpenAI"

(* C4: the four fields of MODEL_CONFIG, and of every snapshot prompt takes *)
(* of it, all come from the same configureModel call or all from the       *)
(* defaults, never the url of one configuration with the token, model or   *)
(* adapter of another.                                                     *)
C4_SnapshotNotTorn ==
    /\ config = LatestConfiguration
    /\ op = "prompt" => request[1].snapshot = LatestConfiguration

C4_Witness ==
    /\ op = "prompt"
    /\ lastArgs # <<>>
    /\ request[1].snapshot.url # DefaultConfig.url
    /\ request[1].snapshot.token # DefaultConfig.token
    /\ request[1].snapshot.model # DefaultConfig.model
    /\ request[1].snapshot.adapter # DefaultConfig.adapter

(* C5: prompt always returns a string: the text on success with text,      *)
(* exactly "No response" on success without text, and "Error: " followed   *)
(* by the failure message on any client failure.                           *)
C5_PromptReturnsString ==
    op = "prompt" =>
        LET o == response[1]
        IN  /\ ret.kind = "String"
            /\ o.kind = "text" => ret.value = o.payload
            /\ o.kind = "empty" =>
                  ret.value = <<"N", "o", " ", "r", "e", "s", "p", "o", "n", "s", "e">>
            /\ o.kind = "error" =>
                  /\ IsPrefix(<<"E", "r", "r", "o", "r", ":", " ">>, ret.value)
                  /\ SubSeq(ret.value, 8, Len(ret.value)) = o.payload

C5_Witness ==
    /\ op = "prompt"
    /\ response[1].kind = "error"
    /\ ret = [kind |-> "String",
              value |-> <<"E", "r", "r", "o", "r", ":", " ", "b", "o", "o", "m">>]

(* C6: MODEL_CONFIG is changed only by configureModel: a prompt call, for   *)
(* every history, message and remote outcome, a lookup-env call and the    *)
(* tool-descriptor operations leave its four fields as they were.          *)
C6_OnlyConfigureChangesConfig ==
    [][op' \in {"prompt", "lookup-env", "tool/new", "tool/describe"}
          => config' = config]_vars

C6_Witness ==
    /\ op = "prompt"
    /\ response[1].kind = "error"
    /\ lastArgs # <<>>
    /\ config = lastArgs[1]
    /\ config # DefaultConfig

(* C7: each prompt call issues exactly one request attempt, successful or  *)
(* not, so after n prompt calls the client has received n requests, and a  *)
(* failed attempt is surfaced once as the error string of its call.        *)
C7_OneAttemptPerPrompt ==
    /\ sent = prompts
    /\ op = "prompt" /\ response[1].kind = "error" =>
          ret.value = <<"E", "r", "r", "o", "r", ":", " ">> \o response[1].payload

C7_Witness ==
    /\ op = "prompt"
    /\ response[1].kind = "error"
    /\ prompts = 2
    /\ sent = 2

LookupOutcome ==
    op = "lookup-env" =>
        LET v == args[1]
        IN  IF v \in DOMAIN env /\ env[v].valid
            THEN ret = [kind |-> "Ok", value |-> <<env[v].value>>]
            ELSE ret.kind = "Err" /\ ret.value # <<>> /\ ret.value # <<"">>

(* C8: lookupEnvironmentVariable(name) succeeds with exactly the value if  *)
(* a variable of exactly that name is set to valid text, fails with a      *)
(* description if it is unset or not valid text (never a success with an   *)
(* empty or default string), and does not change the environment.          *)
C8_LookupEnv ==
    [][op' = "lookup-env" => LookupOutcome' /\ env' = env]_vars

C8_Witness ==
    /\ op = "lookup-env"
    /\ args = <<"api_key">>
    /\ DOMAIN env = {"API_KEY"}
    /\ env["API_KEY"] = [valid |-> TRUE, value |-> "secret"]
    /\ ret.kind = "Err"

(* the lines of a rendered text *)
RECURSIVE Lines(_, _)
Lines(text, line) ==
    IF text = <<>> THEN (IF line = <<>> THEN <<>> ELSE <<line>>)
    ELSE IF Head(text) = "\n" THEN <<line>> \o Lines(Tail(text), <<>>)
    ELSE Lines(Tail(text), Append(line, Head(text)))

Mentions(line, fragment) == \E i \in 1..Len(line) : line[i] = fragment

(* C9: tool/describe lists the name and the description verbatim and, for  *)
(* a descriptor with k schema entries, renders k parameter lines between   *)
(* "Schema: [" and "]", in schema order, each naming its parameter and its *)
(* type tag (<number>, <string> or <bool>).                                *)
C9_DescribeRendersSchema ==
    op = "tool/describe" =>
        LET t == args[1]
            ls == Lines(ret.value, <<>>)
            k == Len(t.schema)
        IN  /\ \E i \in 1..Len(ls) : Mentions(ls[i], t.name)
            /\ \E i \in 1..Len(ls) : Mentions(ls[i], t.description)
            /\ \E open \in 1..Len(ls) :
                  /\ ls[open] = <<"Schema: [">>
                  /\ open + k + 1 <= Len(ls)
                  /\ ls[open + k + 1] = <<"]">>
                  /\ \A j \in 1..k :
                        /\ Mentions(ls[open + j], t.schema[j][1])
                        /\ Mentions(ls[open + j],
                               CASE t.schema[j][2] = "Number" -> "<number>"
                                 [] t.schema[j][2] = "String" -> "<string>"
                                 [] t.schema[j][2] = "Bool" -> "<bool>")

QuitLines == { <<":", "q">>, <<":", "q", "u", "i", "t">>, <<" ", ":", "q", " ">>, <<":", "q", " ", "n", "o", "w">> }

(* C10: the REPL loop stops only on :q / :quit, on end-of-input or on a     *)
(* non-interrupt read error; after an empty line, an interrupt, an unknown *)
(* colon-command, :load without an argument, :load of a missing or failing *)
(* file, or a script line that fails, it reads the next line; and main     *)
(* always enters the REPL, whatever became of the file argument.           *)
C10_SessionSurvivesFailures ==
    [][/\ pc = "main" => pc' = "repl"
       /\ pc = "repl" /\ pc' = "exit" =>
             \/ lastRead'.kind \in {"Eof", "Error"}
             \/ lastRead'.kind = "Ok" /\ lastRead'.line \in QuitLines
       /\ pc = "repl"
             /\ lastRead'.kind \notin {"Eof", "Error"}
             /\ ~(lastRead'.kind = "Ok" /\ lastRead'.line \in QuitLines)
          => pc' = "repl"
       /\ pc = "exit" => pc' = "exit"]_vars

C10_Witness ==
    /\ pc = "repl"
    /\ argFile # <<>>
    /\ lastRead = [kind |-> "Ok", line |-> <<":", "l", "o", "a", "d", " ", " ", "a">>]
    /\ stderr = << <<"Error reading ", <<"a">>, ": ", "e">> >>
    /\ Len(rlHistory) = 2

====
